---- MODULE Spec2Model ----
(***************************************************************************)
(* Model of the noVNC / ocloudview remote-desktop gateway:                 *)
(*   - WebsockifyProxy (lib/websockify-proxy.js, src/unnamed/part_006):    *)
(*     admission, pre-dial buffering, dial with retry, splice, registry,   *)
(*     heartbeat;                                                          *)
(*   - the WebSocket handlers (lib/websocket-handler.js = part_005,        *)
(*     lib/spice-handler.js = part_003): path check, bearer, resolver;     *)
(*   - the session store and the connect routes of server.js.              *)
(* One WebSocket, its TCP target and the handler call that serves it are   *)
(* the "slot" w; Node's event loop runs one callback (with the microtasks  *)
(* it queues) at a time, so every action below is one callback.            *)
(***************************************************************************)
EXTENDS Integers, Sequences, FiniteSets, TLC

\* ---------------------------------------------------------------- bounds
MaxSockets == 2        \* WebSocket upgrades the process sees
MaxFrames == 2         \* frames a client sends on one WebSocket
MaxReads == 1          \* chunks read from one TCP target
MaxSweeps == 3         \* heartbeat ticks
MaxCalls == 2          \* upstream password calls (each returns a new password)
MaxSessions == 2       \* session ids ever issued
MaxRequests == 2
MaxSignals == 2       \* REST connect requests

\* ------------------------------------------ configuration (part_006:23-39)
\* this.config, the options the proxy is constructed with.  The model draws
\* them small (the defaults are 100, 20, 1 MiB and 3) so that the caps, the
\* buffer bound and the last attempt are reached.
Config(maxConns, perVM, bufMax, retries) ==
  [maxConnections |-> maxConns, maxConnectionsPerVM |-> perVM,
   bufferMaxSize |-> bufMax, maxRetries |-> retries,
   retryDelay |-> 1000, retryBackoffMultiplier |-> 2]

Sockets == 1 .. MaxSockets
Requests == 1 .. MaxRequests
VmIds == {"V1", "V2"}

\* ---------------------------------------------------------------- frames
\* A client frame as the ws library hands it to a 'message' listener: binary
\* frames are Buffers, text frames are strings.  data is the payload's bytes
\* (what Buffer.from(data) yields); json is what JSON.parse makes of a text
\* frame ("none": it throws).
BinA == [kind |-> "binary", data |-> <<1>>, json |-> "none"]
BinB == [kind |-> "binary", data |-> <<2, 3>>, json |-> "none"]
TextRaw == [kind |-> "text", data |-> <<4>>, json |-> "none"]
TextPing == [kind |-> "text", data |-> <<5, 6>>, json |-> "ping"]
Frames == {BinA, BinB, TextRaw, TextPing}
Chunks == {<<7>>, <<8, 9>>}

VARIABLES
  config,              \* this.config
  ws,                  \* slot -> the WebSocket object
  target,              \* slot -> the net.Socket dialled for it
  call,                \* slot -> locals of the handler call serving it
  connections,         \* this.connections: connectionId -> record
  vmConnections,       \* this.vmConnections: vmId -> set of connectionIds
  connectionIdCounter, \* this.connectionIdCounter
  heartbeat,           \* the interval timer: running, ticks so far
  client,              \* the browser client: the bearer it has stored
  server,              \* the process: position of gracefulShutdown, whether
                       \* the servers listen, the deadline timer, the exit
  sessionStore,        \* server.js sessionStore: sessionId -> session data
  upstream,            \* the management API: calls answered so far
  rest,                \* REST connect requests in flight and their responses
  issued,              \* session ids issued so far
  wire                 \* history: the frames each client sent (with the
                       \* handler's stage at arrival), the chunks each target
                       \* sent (with whether the WebSocket was OPEN), and the
                       \* heartbeat sweeps since the WebSocket was last
                       \* marked alive (its last pong, or the splice), the
                       \* outcome of each dial attempt, the delay of each
                       \* backoff timer, and the socket error of the session

webVars == <<sessionStore, upstream, rest, issued>>

vars == <<config, client, ws, target, call, connections, vmConnections, connectionIdCounter,
          heartbeat, server, webVars, wire>>


\* ------------------------------------------------------------- ws library
NewWs == [readyState |-> "OPEN", isAlive |-> "undefined", listeners |-> {},
          sent |-> <<>>, closeCode |-> 0, pinged |-> FALSE, terminated |-> FALSE]
NoWs == [NewWs EXCEPT !.readyState = "NONE"]
NoTarget == [state |-> "none", written |-> <<>>]
NoWire == [frames |-> <<>>, reads |-> <<>>, idle |-> 0,
           dials |-> <<>>, sleeps |-> <<>>, error |-> ""]
NoInfo == [host |-> "", port |-> "", password |-> ""]
NoCall == [pc |-> "idle", path |-> <<>>, proto |-> "", vmId |-> "", token |-> "",
           failure |-> "", tokenVmId |-> "",
           sessionId |-> 0, info |-> NoInfo, fetch |-> 0,
           connectionId |-> <<>>, messageBuffer |-> <<>>,
           isProxyReady |-> FALSE, attempt |-> 0,
           lastError |-> "", delay |-> 0, thrown |-> ""]

\* The process after server.listen: no signal yet.
Serving == [shutdown |-> "none", signals |-> 0, listening |-> TRUE,
            deadline |-> FALSE, exit |-> "none"]

NoRequest == [pc |-> "idle", proto |-> "", sessionId |-> 0, vmId |-> "",
              fetch |-> 0, response |-> NoInfo, status |-> 0]

ErrorFrame(message) == [binary |-> FALSE, data |-> <<"error", message>>]
PongFrame == [binary |-> FALSE, data |-> <<"pong">>]
BinaryFrame(bytes) == [binary |-> TRUE, data |-> bytes]

\* ws.send(data): a frame goes out only while the socket is OPEN.
WsSend(s, frame) ==
  IF s.readyState = "OPEN" THEN [s EXCEPT !.sent = Append(@, frame)] ELSE s

\* A close that overwrites the code of a handshake already started.
WsCloseCallAgain(s, code) ==
  IF s.readyState \in {"OPEN", "CLOSING"}
  THEN [s EXCEPT !.readyState = "CLOSING", !.closeCode = code]
  ELSE s

\* ws.close(code): starts the closing handshake of an OPEN socket.
WsCloseCall(s, code) ==
  IF s.readyState = "OPEN"
  THEN [s EXCEPT !.readyState = "CLOSING", !.closeCode = code]
  ELSE s

\* ws.terminate(): destroys the connection; 'close' is emitted later.
WsTerminate(s) ==
  IF s.readyState \in {"OPEN", "CLOSING"}
  THEN [s EXCEPT !.readyState = "CLOSING", !.terminated = TRUE]
  ELSE s

\* target.writable
Writable(t) == t.state = "open"

\* target.write(buffer) guarded by target.writable
TargetWrite(t, bytes) ==
  IF Writable(t) THEN [t EXCEPT !.written = Append(@, bytes)] ELSE t

\* target.end(): half-close of the write side.
TargetEnd(t) == IF t.state = "open" THEN [t EXCEPT !.state = "ended"] ELSE t

\* ---------------------------------------------------------------- registry
\* this.vmConnections.get(vmId) || new Set()
VmConns(vmc, vmId) == IF vmId \in DOMAIN vmc THEN vmc[vmId] ELSE {}

\* this.connections.set(connectionId, {...})
ConnectionsSet(conns, connectionId, rec) ==
  [c \in DOMAIN conns \cup {connectionId} |->
     IF c = connectionId THEN rec ELSE conns[c]]

\* if (!has(vmId)) set(vmId, new Set()); get(vmId).add(connectionId)
VmConnectionsAdd(vmc, vmId, connectionId) ==
  [v \in DOMAIN vmc \cup {vmId} |->
     IF v = vmId THEN VmConns(vmc, vmId) \cup {connectionId} ELSE vmc[v]]

\* A cleanup that leaves this.connections as it is.
CleanupNothing(conns, connectionId) == conns

\* cleanupConnection, on this.connections
CleanupConnections(conns, connectionId) ==
  [c \in DOMAIN conns \ {connectionId} |-> conns[c]]

\* A cleanup that leaves an emptied set in the index.
CleanupVmConnectionsKeepEmpty(vmc, connectionId, vmId) ==
  IF vmId \in DOMAIN vmc THEN [vmc EXCEPT ![vmId] = @ \ {connectionId}] ELSE vmc

\* A cleanup that tests the size of the VM's set before deleting from it.
CleanupVmConnectionsSizeFirst(vmc, connectionId, vmId) ==
  IF vmId \in DOMAIN vmc
  THEN IF Cardinality(vmc[vmId]) <= 1
       THEN [v \in DOMAIN vmc \ {vmId} |-> vmc[v]]
       ELSE [vmc EXCEPT ![vmId] = @ \ {connectionId}]
  ELSE vmc

\* cleanupConnection, on this.vmConnections
CleanupVmConnections(vmc, connectionId, vmId) ==
  IF vmId \in DOMAIN vmc
  THEN IF vmc[vmId] \ {connectionId} = {}
       THEN [v \in DOMAIN vmc \ {vmId} |-> vmc[v]]
       ELSE [vmc EXCEPT ![vmId] = @ \ {connectionId}]
  ELSE vmc

\* Admission checks in the other order: the VM's cap first.
AdmissionPerVmFirst(conns, vmc, vmId) ==
  IF Cardinality(VmConns(vmc, vmId)) >= config.maxConnectionsPerVM
  THEN "Too many connections for this VM"
  ELSE IF Cardinality(DOMAIN conns) >= config.maxConnections
       THEN "Server is at maximum capacity"
       ELSE ""

\* The admission checks of handleConnection: "" admits, else the message.
Admission(conns, vmc, vmId) ==
  IF Cardinality(DOMAIN conns) >= config.maxConnections
  THEN "Server is at maximum capacity"
  ELSE IF Cardinality(VmConns(vmc, vmId)) >= config.maxConnectionsPerVM
       THEN "Too many connections for this VM"
       ELSE ""

\* ------------------------------------------------------- handleConnection
\* A handleConnection that takes a new id only for an admitted connection.
handleConnectionCountAdmitted(w, wsIn, callIn, vmId) ==
  LET refusal == Admission(connections, vmConnections, vmId)
      counter == IF refusal = "" THEN connectionIdCounter + 1 ELSE connectionIdCounter
      connectionId == <<vmId, counter>>
  IN /\ connectionIdCounter' = counter
     /\ UNCHANGED <<connections, vmConnections>>
     /\ IF refusal # ""
        THEN /\ ws' = [ws EXCEPT ![w] =
                         WsCloseCall(WsSend(wsIn, ErrorFrame(refusal)), 1008)]
             /\ call' = [call EXCEPT ![w] =
                           [callIn EXCEPT !.pc = "returned", !.vmId = vmId,
                                          !.connectionId = connectionId]]
             /\ UNCHANGED target
        ELSE /\ ws' = [ws EXCEPT ![w] =
                         [wsIn EXCEPT !.listeners = @ \cup {"temp"}]]
             /\ call' = [call EXCEPT ![w] =
                           [callIn EXCEPT !.pc = "dialing", !.vmId = vmId,
                                          !.connectionId = connectionId,
                                          !.attempt = 1]]
             /\ target' = [target EXCEPT ![w] =
                             [NoTarget EXCEPT !.state = "connecting"]]

\* handleConnection up to its first await (the dial).  wsIn is the WebSocket
\* and callIn the handler's locals as the caller holds them.
handleConnection(w, wsIn, callIn, vmId) ==
  LET connectionId == <<vmId, connectionIdCounter + 1>>
      refusal == Admission(connections, vmConnections, vmId)
  IN /\ connectionIdCounter' = connectionIdCounter + 1
     /\ UNCHANGED <<connections, vmConnections>>
     /\ IF refusal # ""
        THEN /\ ws' = [ws EXCEPT ![w] =
                         WsCloseCall(WsSend(wsIn, ErrorFrame(refusal)), 1008)]
             /\ call' = [call EXCEPT ![w] =
                           [callIn EXCEPT !.pc = "returned", !.vmId = vmId,
                                          !.connectionId = connectionId]]
             /\ UNCHANGED target
        ELSE /\ ws' = [ws EXCEPT ![w] =
                         [wsIn EXCEPT !.listeners = @ \cup {"temp"}]]
             /\ call' = [call EXCEPT ![w] =
                           [callIn EXCEPT !.pc = "dialing", !.vmId = vmId,
                                          !.connectionId = connectionId,
                                          !.attempt = 1]]
             /\ target' = [target EXCEPT ![w] =
                             [NoTarget EXCEPT !.state = "connecting"]]

\* Slots are taken in the order the upgrades arrive.
Fresh(w) ==
  /\ ws[w].readyState = "NONE"
  /\ \A v \in Sockets : v < w => ws[v].readyState # "NONE"

\* A WebSocket whose target is already resolved is handed to the proxy.
ProxyConnection(w, vmId) ==
  /\ Fresh(w)
  /\ handleConnection(w, NewWs, NoCall, vmId)
  /\ UNCHANGED <<config, client, heartbeat, server, webVars, wire>>

\* The buffered frames, each written as Buffer.from(data) if target.writable.
RECURSIVE FlushBuffer(_, _)
FlushBuffer(t, buffer) ==
  IF buffer = <<>> THEN t
  ELSE FlushBuffer(TargetWrite(t, Head(buffer).data), Tail(buffer))

\* A setupProxy with the temporary handler still installed.
SetupProxyKeepsTemp(s) ==
  [s EXCEPT !.isAlive = "true",
            !.listeners = @ \cup {"temp", "message", "pong", "close", "error"}]

\* setupProxy: isAlive and the five listeners (message, pong, close, error
\* on ws; data, close, error on target are installed in the same call).
SetupProxy(s) ==
  [s EXCEPT !.isAlive = "true",
            !.listeners = @ \cup {"message", "pong", "close", "error"}]

\* 'connect' on the dialled socket: _attemptConnection resolves,
\* createTargetConnection returns and handleConnection runs to its end.
DialSucceeds(w) ==
  /\ call[w].pc = "dialing"
  /\ target[w].state = "connecting"
  /\ LET c == call[w]
         opened == [target[w] EXCEPT !.state = "open"]
     IN /\ ws' = [ws EXCEPT ![w] =
                    SetupProxy([@ EXCEPT !.listeners = @ \ {"temp"}])]
        /\ target' = [target EXCEPT ![w] = FlushBuffer(opened, c.messageBuffer)]
        /\ connections' = ConnectionsSet(connections, c.connectionId,
                                         [vmId |-> c.vmId, slot |-> w])
        /\ vmConnections' = VmConnectionsAdd(vmConnections, c.vmId, c.connectionId)
        /\ call' = [call EXCEPT ![w].pc = "spliced", ![w].isProxyReady = TRUE]
  /\ wire' = [wire EXCEPT ![w].idle = 0, ![w].dials = Append(@, "connect")]
  /\ UNCHANGED <<config, client, connectionIdCounter, heartbeat, server, webVars>>

\* A loop bound that allows one more attempt.
MaxAttemptsOneMore(cfg) == cfg.maxRetries + 2

\* createTargetConnection: maxAttempts.
MaxAttempts(cfg) == cfg.maxRetries + 1

RECURSIVE Pow(_, _)
Pow(base, exponent) ==
  IF exponent = 0 THEN 1 ELSE base * Pow(base, exponent - 1)

\* A backoff whose exponent is the attempt number itself.
RetryDelayLate(cfg, attempt) ==
  cfg.retryDelay * Pow(cfg.retryBackoffMultiplier, attempt)

\* createTargetConnection: the delay before the attempt after `attempt`.
RetryDelay(cfg, attempt) ==
  cfg.retryDelay * Pow(cfg.retryBackoffMultiplier, attempt - 1)

\* The errors an attempt rejects with: the socket's 'error', or the
\* Error('Connection timeout') made by the 'timeout' listener.
DialErrors == {"ECONNREFUSED", "Connection timeout"}

\* A catch that closes with 1011 but leaves the buffering handler installed.
CatchDialErrorKeepHandler(s) ==
  WsCloseCall(WsSend(s, ErrorFrame("Failed to connect to server")), 1011)

\* The catch of handleConnection after a failed dial (isProxyReady is
\* false): remove the buffering handler, send the error frame, close 1011.
CatchDialError(s) ==
  WsCloseCall(WsSend([s EXCEPT !.listeners = @ \ {"temp"}],
                     ErrorFrame("Failed to connect to server")),
              1011)

\* 'error' or 'timeout' on the dialled socket: the attempt rejects.  Before
\* the last attempt createTargetConnection sleeps; after it, it throws the
\* last error and handleConnection's catch closes the WebSocket.
DialFails(w, error) ==
  /\ call[w].pc = "dialing"
  /\ target[w].state = "connecting"
  /\ target' = [target EXCEPT ![w].state = "none"]
  /\ IF call[w].attempt < MaxAttempts(config)
     THEN /\ call' = [call EXCEPT ![w].pc = "sleeping", ![w].lastError = error,
                                  ![w].delay = RetryDelay(config, call[w].attempt)]
          /\ wire' = [wire EXCEPT ![w].dials = Append(@, error),
                                  ![w].sleeps =
                                    Append(@, RetryDelay(config, call[w].attempt))]
          /\ UNCHANGED ws
     ELSE /\ call' = [call EXCEPT ![w].pc = "returned", ![w].lastError = error,
                                  ![w].thrown = error]
          /\ wire' = [wire EXCEPT ![w].dials = Append(@, error)]
          /\ ws' = [ws EXCEPT ![w] = CatchDialError(@)]
  /\ UNCHANGED <<config, client, connections, vmConnections, connectionIdCounter,
                 heartbeat, server, webVars>>

\* The backoff timer fires: the next attempt starts.
RetryTimer(w) ==
  /\ call[w].pc = "sleeping"
  /\ call' = [call EXCEPT ![w].pc = "dialing", ![w].attempt = @ + 1]
  /\ target' = [target EXCEPT ![w].state = "connecting"]
  /\ UNCHANGED <<config, client, ws, connections, vmConnections, connectionIdCounter,
                 heartbeat, server, webVars, wire>>

\* ------------------------------------------------------- WebSocket events
\* Whether the permanent 'message' listener writes the frame to the target:
\* Buffers, and strings that JSON.parse rejects.
ForwardsToTcp(f) == f.kind = "binary" \/ f.json = "none"

\* The permanent 'message' listener of setupProxy, on the target.
MessageToTarget(t, f) == IF ForwardsToTcp(f) THEN TargetWrite(t, f.data) ELSE t

\* handleControlMessage, on the WebSocket: ping is answered with a pong.
MessageToWs(s, f) ==
  IF ~ForwardsToTcp(f) /\ f.json = "ping" THEN WsSend(s, PongFrame) ELSE s

\* A buffering handler that unshifts instead of pushing.
TempMessageHandlerUnshift(c, f) ==
  IF ~c.isProxyReady THEN [c EXCEPT !.messageBuffer = <<f>> \o @] ELSE c

\* tempMessageHandler: push unless the proxy is ready.
TempMessageHandler(c, f) ==
  IF ~c.isProxyReady THEN [c EXCEPT !.messageBuffer = Append(@, f)] ELSE c

\* The client sends a frame: 'message' is emitted to the listeners installed
\* at that moment (none: the frame is dropped).
WsMessage(w, f) ==
  /\ ws[w].readyState \in {"OPEN", "CLOSING"}
  /\ ~ws[w].terminated
  /\ Len(wire[w].frames) < MaxFrames
  /\ wire' = [wire EXCEPT ![w].frames = Append(@, [f |-> f, pc |-> call[w].pc])]
  /\ call' = [call EXCEPT ![w] =
                IF "temp" \in ws[w].listeners THEN TempMessageHandler(@, f) ELSE @]
  /\ target' = [target EXCEPT ![w] =
                  IF "message" \in ws[w].listeners THEN MessageToTarget(@, f) ELSE @]
  /\ ws' = [ws EXCEPT ![w] =
              IF "message" \in ws[w].listeners THEN MessageToWs(@, f) ELSE @]
  /\ UNCHANGED <<config, client, connections, vmConnections, connectionIdCounter,
                 heartbeat, server, webVars>>

\* The WebSocket reaches CLOSED (the client closed, or a close or terminate
\* of ours completed) and 'close' is emitted: target.end(), cleanupConnection.
WsClose(w) ==
  /\ ws[w].readyState \in {"OPEN", "CLOSING"}
  /\ ws' = [ws EXCEPT ![w].readyState = "CLOSED"]
  /\ IF "close" \in ws[w].listeners
     THEN /\ target' = [target EXCEPT ![w] = TargetEnd(@)]
          /\ connections' = CleanupConnections(connections, call[w].connectionId)
          /\ vmConnections' = CleanupVmConnections(vmConnections,
                                 call[w].connectionId, call[w].vmId)
     ELSE UNCHANGED <<target, connections, vmConnections>>
  /\ UNCHANGED <<config, client, call, connectionIdCounter, heartbeat, server, webVars, wire>>

\* 'error' on a spliced WebSocket (the library then closes it): target.end(),
\* cleanupConnection.
WsError(w) ==
  /\ ws[w].readyState = "OPEN"
  /\ "error" \in ws[w].listeners
  /\ ws' = [ws EXCEPT ![w] = WsTerminate(@)]
  /\ target' = [target EXCEPT ![w] = TargetEnd(@)]
  /\ connections' = CleanupConnections(connections, call[w].connectionId)
  /\ vmConnections' = CleanupVmConnections(vmConnections,
                         call[w].connectionId, call[w].vmId)
  /\ wire' = [wire EXCEPT ![w].error = "ws"]
  /\ UNCHANGED <<config, client, call, connectionIdCounter, heartbeat, server, webVars>>

\* The 'pong' listener of setupProxy.
OnPong(s) == IF "pong" \in s.listeners THEN [s EXCEPT !.isAlive = "true"] ELSE s

\* The client answers the outstanding ping.
WsPong(w) ==
  /\ ws[w].readyState = "OPEN"
  /\ ws[w].pinged
  /\ ws' = [ws EXCEPT ![w] = [OnPong(@) EXCEPT !.pinged = FALSE]]
  /\ wire' = [wire EXCEPT ![w].idle = 0]
  /\ UNCHANGED <<config, client, target, call, connections, vmConnections, connectionIdCounter,
                 heartbeat, server, webVars>>

\* ------------------------------------------------------------- TCP events
\* A 'data' listener without the readyState guard: the frame is queued
\* whatever the state of the WebSocket.
DataToWsUnguarded(s, d) == [s EXCEPT !.sent = Append(@, BinaryFrame(d))]

\* The 'data' listener of setupProxy, on the WebSocket.
DataToWs(s, d) ==
  IF s.readyState = "OPEN" THEN WsSend(s, BinaryFrame(d)) ELSE s

\* A chunk is read from the target.
TcpData(w, d) ==
  /\ target[w].state \in {"open", "ended"}
  /\ Len(wire[w].reads) < MaxReads
  /\ wire' = [wire EXCEPT ![w].reads =
                 Append(@, [data |-> d, open |-> ws[w].readyState = "OPEN"])]
  /\ ws' = [ws EXCEPT ![w] = DataToWs(@, d)]
  /\ UNCHANGED <<config, client, target, call, connections, vmConnections, connectionIdCounter,
                 heartbeat, server, webVars>>

\* 'close' on the target: close the WebSocket with 1000 if OPEN, cleanup.
TcpClose(w) ==
  /\ target[w].state \in {"open", "ended", "destroyed"}
  /\ target' = [target EXCEPT ![w].state = "closed"]
  /\ ws' = [ws EXCEPT ![w] = WsCloseCall(@, 1000)]
  /\ connections' = CleanupConnections(connections, call[w].connectionId)
  /\ vmConnections' = CleanupVmConnections(vmConnections,
                         call[w].connectionId, call[w].vmId)
  /\ UNCHANGED <<config, client, call, connectionIdCounter, heartbeat, server, webVars, wire>>

\* 'error' on the spliced target (it is destroyed; 'close' follows): close the
\* WebSocket with 1011 if OPEN, cleanup.
TcpError(w) ==
  /\ target[w].state \in {"open", "ended"}
  /\ target' = [target EXCEPT ![w].state = "destroyed"]
  /\ ws' = [ws EXCEPT ![w] = WsCloseCall(@, 1011)]
  /\ connections' = CleanupConnections(connections, call[w].connectionId)
  /\ vmConnections' = CleanupVmConnections(vmConnections,
                         call[w].connectionId, call[w].vmId)
  /\ wire' = [wire EXCEPT ![w].error = "tcp"]
  /\ UNCHANGED <<config, client, call, connectionIdCounter, heartbeat, server, webVars>>

\* --------------------------------------------------------------- heartbeat
\* this.wss.clients: the WebSockets that have not emitted 'close'.
Clients == {w \in Sockets : ws[w].readyState \in {"OPEN", "CLOSING"}}

\* A sweep that pings every WebSocket and terminates none.
SweepPingOnly(s) ==
  [s EXCEPT !.isAlive = "false", !.pinged = (s.readyState = "OPEN")]

\* The body of the forEach of startHeartbeat, for one WebSocket.
Sweep(s) ==
  IF s.isAlive = "false"
  THEN WsTerminate(s)
  ELSE [s EXCEPT !.isAlive = "false", !.pinged = (s.readyState = "OPEN")]

\* The interval timer fires.
HeartbeatTick ==
  /\ heartbeat.running
  /\ heartbeat.ticks < MaxSweeps
  /\ heartbeat' = [heartbeat EXCEPT !.ticks = @ + 1]
  /\ ws' = [w \in Sockets |-> IF w \in Clients THEN Sweep(ws[w]) ELSE ws[w]]
  /\ wire' = [w \in Sockets |->
                IF w \in Clients THEN [wire[w] EXCEPT !.idle = @ + 1] ELSE wire[w]]
  /\ UNCHANGED <<config, client, target, call, connections, vmConnections, connectionIdCounter,
                 server, webVars>>

\* -------------------------------------------------- management API (upstream)
\* The vnc-password endpoint answers its k-th call with the base64 of a new
\* password; get-connection-info answers with a plain key.
PlainVncPassword(k) == <<"vncpw", k>>
encodePassword(password) == <<"base64", password>>
decodePassword(encodedPassword) == encodedPassword[2]
UpstreamVncPassword(k) == encodePassword(PlainVncPassword(k))
UpstreamSpiceKey(k) == <<"spicekey", k>>
HostIp(vmId) == <<"host", vmId>>
VncPort(vmId) == <<"vncport", vmId>>
SpicePort(vmId) == <<"spiceport", vmId>>
OcloudToken == "token_login"

\* getCompleteVNCInfo: connection info, port, password (decoded once).
getCompleteVNCInfo(vmId, k) ==
  [host |-> HostIp(vmId), port |-> VncPort(vmId),
   password |-> decodePassword(UpstreamVncPassword(k)),
   spicePort |-> SpicePort(vmId)]

\* getSPICEConnectionInfo
getSPICEConnectionInfo(vmId, k) ==
  [hostIp |-> HostIp(vmId), spicePort |-> SpicePort(vmId),
   spicePassword |-> UpstreamSpiceKey(k)]

\* ------------------------------------------------------------ session store
EmptyMap == [x \in {} |-> {}]
MapSet(m, k, v) == [x \in DOMAIN m \cup {k} |-> IF x = k THEN v ELSE m[x]]
MapDelete(m, k) == [x \in DOMAIN m \ {k} |-> m[x]]

NewSession == [ocloudToken |-> OcloudToken, vncConnections |-> EmptyMap,
               spiceConnections |-> EmptyMap]

\* The per-VM cache of a session that a protocol's handler and route use.
Cache(sessionData, proto) ==
  IF proto = "vnc" THEN sessionData.vncConnections ELSE sessionData.spiceConnections

\* sessionData.vncConnections.set(vmId, {...}) / spiceConnections.set(...)
CacheSet(sessionData, proto, vmId, info) ==
  IF proto = "vnc"
  THEN [sessionData EXCEPT !.vncConnections = MapSet(@, vmId, info)]
  ELSE [sessionData EXCEPT !.spiceConnections = MapSet(@, vmId, info)]

\* POST /api/auth/login (the upstream login succeeded)
Login ==
  /\ issued < MaxSessions
  /\ issued' = issued + 1
  /\ sessionStore' = MapSet(sessionStore, issued + 1, NewSession)
  /\ UNCHANGED <<config, client, ws, target, call, connections, vmConnections,
                 connectionIdCounter, heartbeat, server, upstream, rest, wire>>

\* POST /api/auth/logout with a bearer that passes authMiddleware
Logout(sessionId) ==
  /\ sessionId \in DOMAIN sessionStore
  /\ sessionStore' = MapDelete(sessionStore, sessionId)
  /\ UNCHANGED <<config, client, ws, target, call, connections, vmConnections,
                 connectionIdCounter, heartbeat, server, upstream, rest, issued, wire>>

\* A refresh that starts the new session with empty caches.
RefreshFreshCaches(sessionId) ==
  /\ sessionId \in DOMAIN sessionStore
  /\ issued < MaxSessions
  /\ issued' = issued + 1
  /\ sessionStore' = MapDelete(MapSet(sessionStore, issued + 1, NewSession),
                               sessionId)
  /\ UNCHANGED <<config, client, ws, target, call, connections, vmConnections,
                 connectionIdCounter, heartbeat, server, upstream, rest, wire>>

\* POST /api/auth/refresh with a bearer that passes authMiddleware
Refresh(sessionId) ==
  /\ sessionId \in DOMAIN sessionStore
  /\ issued < MaxSessions
  /\ issued' = issued + 1
  /\ sessionStore' = MapDelete(MapSet(sessionStore, issued + 1,
                                      sessionStore[sessionId]), sessionId)
  /\ UNCHANGED <<config, client, ws, target, call, connections, vmConnections,
                 connectionIdCounter, heartbeat, server, upstream, rest, wire>>

\* What a connect route caches and answers, from the upstream's k-th answer.
ConnectInfo(proto, vmId, k) ==
  IF proto = "vnc"
  THEN [host |-> getCompleteVNCInfo(vmId, k).host,
        port |-> getCompleteVNCInfo(vmId, k).port,
        password |-> getCompleteVNCInfo(vmId, k).password]
  ELSE [host |-> getSPICEConnectionInfo(vmId, k).hostIp,
        port |-> getSPICEConnectionInfo(vmId, k).spicePort,
        password |-> getSPICEConnectionInfo(vmId, k).spicePassword]

\* An authMiddleware that trusts the signature alone.
authMiddlewareSignatureOnly(store, sessionId) == "next"

\* authMiddleware for a bearer with a valid signature that names sessionId:
\* next() if the store has the session, else 401 'Session expired'.
authMiddleware(store, sessionId) ==
  IF sessionId \in DOMAIN store THEN "next" ELSE "401"

\* GET /api/vnc/connect/:vmId and /api/spice/connect/:vmId, up to the await,
\* with a bearer that login or refresh signed: authMiddleware answers 401,
\* or passes and the upstream is called.
ConnectStart(r, proto, sessionId, vmId) ==
  /\ rest[r].pc = "idle"
  /\ \A q \in Requests : q < r => rest[q].pc # "idle"
  /\ sessionId \in 1 .. issued
  /\ IF authMiddleware(sessionStore, sessionId) = "next"
     THEN /\ upstream < MaxCalls
          /\ upstream' = upstream + 1
          /\ rest' = [rest EXCEPT ![r] =
                        [NoRequest EXCEPT !.pc = "fetching", !.proto = proto,
                                          !.sessionId = sessionId, !.vmId = vmId,
                                          !.fetch = upstream + 1]]
     ELSE /\ rest' = [rest EXCEPT ![r] =
                        [NoRequest EXCEPT !.pc = "rejected",
                                          !.sessionId = sessionId,
                                          !.status = 401]]
          /\ UNCHANGED upstream
  /\ UNCHANGED <<config, client, ws, target, call, connections, vmConnections,
                 connectionIdCounter, heartbeat, server, sessionStore, issued, wire>>

\* A cache fill that keeps an entry the session already has.
ConnectCacheFillOnce(store, sessionId, proto, vmId, info) ==
  IF sessionId \in DOMAIN store /\ vmId \notin DOMAIN Cache(store[sessionId], proto)
  THEN [store EXCEPT ![sessionId] = CacheSet(@, proto, vmId, info)]
  ELSE store

\* The store after the route's cache fill: only if the session is still there.
ConnectCacheFill(store, sessionId, proto, vmId, info) ==
  IF sessionId \in DOMAIN store
  THEN [store EXCEPT ![sessionId] = CacheSet(@, proto, vmId, info)]
  ELSE store

\* The upstream answers a connect route: cache fill and response, or 500.
ConnectDone(r, ok) ==
  /\ rest[r].pc = "fetching"
  /\ LET q == rest[r]
         info == ConnectInfo(q.proto, q.vmId, q.fetch)
     IN IF ok
        THEN /\ sessionStore' = ConnectCacheFill(sessionStore, q.sessionId,
                                                 q.proto, q.vmId, info)
             /\ rest' = [rest EXCEPT ![r].pc = "answered", ![r].response = info,
                                     ![r].status = 200]
        ELSE /\ rest' = [rest EXCEPT ![r].pc = "failed", ![r].status = 500]
             /\ UNCHANGED sessionStore
  /\ UNCHANGED <<config, client, ws, target, call, connections, vmConnections,
                 connectionIdCounter, heartbeat, server, upstream, issued, wire>>

\* ------------------------------------------------- dispatcher and resolver
\* A decoded bearer.  "none": the request carries no token; "invalid":
\* jwt.verify throws; "user": {sessionId}; "vm": {vmId, ocloudToken}.
NoToken == [kind |-> "none", sessionId |-> 0, vmId |-> ""]
InvalidToken == [kind |-> "invalid", sessionId |-> 0, vmId |-> ""]
UserToken(sessionId) == [kind |-> "user", sessionId |-> sessionId, vmId |-> ""]
VmToken(vmId) == [kind |-> "vm", sessionId |-> 0, vmId |-> vmId]

\* What the resolver returns from an upstream answer: verifyAndGetVNCInfo
\* returns getCompleteVNCInfo's result, verifyAndGetSPICEInfo takes the SPICE
\* port of the same call.
ResolvedInfo(proto, vmId, k) ==
  IF proto = "vnc"
  THEN [host |-> getCompleteVNCInfo(vmId, k).host,
        port |-> getCompleteVNCInfo(vmId, k).port,
        password |-> getCompleteVNCInfo(vmId, k).password]
  ELSE [host |-> getCompleteVNCInfo(vmId, k).host,
        port |-> getCompleteVNCInfo(vmId, k).spicePort,
        password |-> getCompleteVNCInfo(vmId, k).password]

Refuse(code) == [kind |-> "close", code |-> code, info |-> NoInfo]
Fetch == [kind |-> "fetch", code |-> 0, info |-> NoInfo]
Hit(cachedInfo) ==
  [kind |-> "hit", code |-> 0,
   info |-> [host |-> cachedInfo.host, port |-> cachedInfo.port,
             password |-> cachedInfo.password]]

\* The resolver of the earlier handler (part_004), which has no cache branch:
\* a live session always goes to the upstream.
VerifyAndGetInfoUncached(store, proto, vmId, token) ==
  IF token.kind = "invalid" THEN Refuse(1008)
  ELSE IF token.kind = "vm" THEN Fetch
  ELSE IF token.sessionId \notin DOMAIN store THEN Refuse(1008)
  ELSE Fetch

\* A resolver that does not look the session up before going upstream.
VerifyAndGetInfoAnySession(store, proto, vmId, token) ==
  IF token.kind = "invalid" THEN Refuse(1008)
  ELSE IF token.kind = "vm" THEN Fetch
  ELSE IF token.sessionId \in DOMAIN store
          /\ vmId \in DOMAIN Cache(store[token.sessionId], proto)
       THEN Hit(Cache(store[token.sessionId], proto)[vmId])
       ELSE Fetch

\* verifyAndGetVNCInfo / verifyAndGetSPICEInfo up to the upstream call.
VerifyAndGetInfo(store, proto, vmId, token) ==
  IF token.kind = "invalid" THEN Refuse(1008)
  ELSE IF token.kind = "vm" THEN Fetch
  ELSE IF token.sessionId \notin DOMAIN store THEN Refuse(1008)
  ELSE IF vmId \in DOMAIN Cache(store[token.sessionId], proto)
       THEN Hit(Cache(store[token.sessionId], proto)[vmId])
       ELSE Fetch

\* A dispatcher that goes to the upstream for an upgrade without a bearer.
DispatchNoBearerCheck(store, proto, vmId, token) ==
  IF proto \notin {"vnc", "spice"} THEN Refuse(1002)
  ELSE IF vmId = "" THEN Refuse(1002)
  ELSE IF token.kind = "none" THEN Fetch
  ELSE VerifyAndGetInfo(store, proto, vmId, token)

\* wss.on('connection') and handleVNCConnection / handleSPICEConnection up
\* to the resolver.
Dispatch(store, proto, vmId, token) ==
  IF proto \notin {"vnc", "spice"} THEN Refuse(1002)
  ELSE IF vmId = "" THEN Refuse(1002)
  ELSE IF token.kind = "none" THEN Refuse(1008)
  ELSE VerifyAndGetInfo(store, proto, vmId, token)

\* The path of req.url as its segments: "/vnc/V1" is <<"vnc", "V1">>, "/vnc/"
\* is <<"vnc", "">>, "/vnc" is <<"vnc">>.
\* urlPath.startsWith('/vnc/') / startsWith('/spice/'): the handler chosen.
PathProto(path) ==
  IF Len(path) >= 2 /\ path[1] \in {"vnc", "spice"} THEN path[1] ELSE "other"

\* urlPath.split('/')[2]
PathVmId(path) == IF Len(path) >= 2 THEN path[2] ELSE ""

\* A WebSocket upgrade completes: 'connection' is emitted.
Connection(w, path, token) ==
  /\ Fresh(w)
  /\ LET proto == PathProto(path)
         vmId == PathVmId(path)
         d == Dispatch(sessionStore, proto, vmId, token)
         c == [NoCall EXCEPT !.path = path, !.proto = proto, !.vmId = vmId,
                             !.token = token.kind, !.sessionId = token.sessionId,
                             !.tokenVmId = token.vmId]
     IN CASE d.kind = "close" ->
               /\ ws' = [ws EXCEPT ![w] = WsCloseCall(NewWs, d.code)]
               /\ call' = [call EXCEPT ![w] = [c EXCEPT !.pc = "returned"]]
               /\ UNCHANGED <<target, connections, vmConnections,
                              connectionIdCounter, upstream>>
          [] d.kind = "fetch" ->
               /\ upstream < MaxCalls
               /\ upstream' = upstream + 1
               /\ ws' = [ws EXCEPT ![w] = NewWs]
               /\ call' = [call EXCEPT ![w] =
                             [c EXCEPT !.pc = "resolving", !.fetch = upstream + 1]]
               /\ UNCHANGED <<target, connections, vmConnections,
                              connectionIdCounter>>
          [] d.kind = "hit" ->
               /\ handleConnection(w, NewWs, [c EXCEPT !.info = d.info], vmId)
               /\ UNCHANGED upstream
  /\ UNCHANGED <<config, client, heartbeat, server, sessionStore, rest, issued, wire>>

\* How an upstream exchange of the resolver ends: with the info, with an
\* authorization-shaped failure (HTTP 401/403, returnCode 5090/5098), or with
\* any other failure (other status, no response).
ResolveOutcomes == {"ok", "unauthorized", "unavailable"}

\* handleApiError: the Error made of a failed exchange.
handleApiError(failure) ==
  IF failure = "unauthorized" THEN "Error(unauthorized)" ELSE "Error(unavailable)"

\* What the resolver returns when the upstream call throws: its catch logs
\* the error and returns null.
ResolverCatch(error) == "null"

\* The upstream answers the resolver: handleConnection is called with the
\* fetched info, or the resolver's catch returns null and the handler closes
\* the WebSocket with 1008.
ResolveDone(w, outcome) ==
  /\ call[w].pc = "resolving"
  /\ IF outcome = "ok"
     THEN handleConnection(w, ws[w],
            [call[w] EXCEPT !.info = ResolvedInfo(call[w].proto, call[w].vmId,
                                                  call[w].fetch)],
            call[w].vmId)
     ELSE /\ ResolverCatch(handleApiError(outcome)) = "null"
          /\ ws' = [ws EXCEPT ![w] = WsCloseCall(@, 1008)]
          /\ call' = [call EXCEPT ![w].pc = "returned", ![w].failure = outcome]
          /\ UNCHANGED <<target, connections, vmConnections, connectionIdCounter>>
  /\ UNCHANGED <<config, client, heartbeat, server, webVars, wire>>

\* ---------------------------------------------------------- specifications
\* The state after construction, common to every specification.
Constructed ==
  /\ ws = [w \in Sockets |-> NoWs]
  /\ target = [w \in Sockets |-> NoTarget]
  /\ call = [w \in Sockets |-> NoCall]
  /\ connections = EmptyMap
  /\ vmConnections = EmptyMap
  /\ connectionIdCounter = 0
  /\ heartbeat = [running |-> TRUE, ticks |-> 0]
  /\ server = Serving
  /\ client = [token |-> 0]
  /\ sessionStore = EmptyMap
  /\ upstream = 0
  /\ rest = [r \in Requests |-> NoRequest]
  /\ issued = 0
  /\ wire = [w \in Sockets |-> NoWire]

\* The proxy engine: admission, dial, registry, closes.
Init ==
  /\ config \in {Config(1, 1, 2, 1), Config(2, 1, 2, 1)}
  /\ Constructed

Next ==
  \E w \in Sockets :
    \/ \E vmId \in VmIds : ProxyConnection(w, vmId)
    \/ DialSucceeds(w)
    \/ DialFails(w, "ECONNREFUSED")
    \/ RetryTimer(w)
    \/ WsClose(w)
    \/ WsError(w)
    \/ TcpClose(w)
    \/ TcpError(w)

Spec == Init /\ [][Next]_vars

\* ------------------------------------------------------------------ claims
Registered(w) == call[w].connectionId \in DOMAIN connections

\* C1: at every instant the registry holds at most maxConnections records
\* and every vm-id's index set holds at most maxConnectionsPerVM ids.
C1_AdmissionCaps ==
  /\ Cardinality(DOMAIN connections) <= config.maxConnections
  /\ \A v \in DOMAIN vmConnections :
       Cardinality(vmConnections[v]) <= config.maxConnectionsPerVM

\* Both sockets of a slot are live: neither closed nor being closed.
BothLive(w) == ws[w].readyState = "OPEN" /\ target[w].state = "open"

\* C2: a connection record is registered exactly while the connection's
\* WebSocket and TCP socket are both live.
C2_RecordIffLive ==
  \A w \in Sockets : call[w].connectionId # <<>> => (Registered(w) <=> BothLive(w))

\* One WebSocket, from the upgrade through the resolver to the splice, with
\* the frames of both directions.
\* The bearers a client can hold: those of the sessions issued so far, and
\* display tokens (signed with the configured secret, valid for one hour).
UserTokens == {UserToken(sid) : sid \in 1 .. issued}
VmTokens == {VmToken(v) : v \in VmIds}

InitSplice ==
  /\ config = Config(2, 1, 2, 1)
  /\ Constructed

NextSplice ==
  \/ \E proto \in {"vnc", "spice"} : Connection(1, <<proto, "V1">>, VmToken("V1"))
  \/ \E outcome \in {"ok", "unavailable"} : ResolveDone(1, outcome)
  \/ DialSucceeds(1)
  \/ DialFails(1, "ECONNREFUSED")
  \/ RetryTimer(1)
  \/ \E f \in Frames : WsMessage(1, f)
  \/ WsClose(1)
  \/ WsError(1)
  \/ \E d \in Chunks : TcpData(1, d)
  \/ TcpClose(1)
  \/ TcpError(1)

SpecSplice == InitSplice /\ [][NextSplice]_vars

\* The concatenation of a sequence of byte sequences.
RECURSIVE Concat(_)
Concat(seqs) == IF seqs = <<>> THEN <<>> ELSE Head(seqs) \o Concat(Tail(seqs))

\* The payloads of a sequence of client frames, one entry per frame.
Payloads(frames) == [i \in 1 .. Len(frames) |-> frames[i].data]

\* The frames the client has sent on slot w, in arrival order.
Arrived(w) == [i \in 1 .. Len(wire[w].frames) |-> wire[w].frames[i].f]

Passthrough(f) == f.kind = "binary" \/ (f.kind = "text" /\ f.json = "none")

\* C4: while a spliced session has both sockets open, the bytes written to
\* the TCP socket are the payloads of all binary and non-JSON text frames the
\* client has sent since the upgrade, in arrival order.
C4_ClientBytesExact ==
  \A w \in Sockets :
    (call[w].pc = "spliced" /\ BothLive(w)) =>
      Concat(target[w].written) = Concat(Payloads(SelectSeq(Arrived(w), Passthrough)))

\* The binary frames sent to the client on slot w, in order.
IsBinary(frame) == frame.binary
SentBinary(w) == SelectSeq(ws[w].sent, IsBinary)

ReadWhileOpen(r) == r.open

DuringDial(e) == e.pc \in {"dialing", "sleeping"}
EarlyFrames(w) ==
  LET early == SelectSeq(wire[w].frames, DuringDial)
  IN [i \in 1 .. Len(early) |-> early[i].f]

C7_BufferHoldsAllEarlyFrames ==
  \A w \in Sockets :
    call[w].pc \in {"resolving", "dialing", "sleeping"} =>
      call[w].messageBuffer = Arrived(w)

\* The bytes held in the pre-dial buffer.
BufferedBytes(buffer) == Len(Concat(Payloads(buffer)))

\* C8: the pre-dial buffer never holds more than bufferMaxSize bytes.
C8_BufferBounded ==
  \A w \in Sockets : BufferedBytes(call[w].messageBuffer) <= config.bufferMaxSize

\* ------------------------------------------------ resolver specification
\* Sessions, the connect routes and one upgrade's resolution, up to the dial.
Tokens == UserTokens \cup {VmToken("V1"), NoToken, InvalidToken}

\* Paths other than /vnc/{id} and /spice/{id}: another prefix, no vm-id
\* segment, an empty one, and a segment after the vm-id.
OtherPaths == {<<"other", "V1">>, <<"vnc">>, <<"vnc", "">>, <<"vnc", "V1", "extra">>}

\* The upgrade requests a client makes: /vnc/V1 and /spice/V1 with any
\* bearer or none, /vnc/V1 with the display token of another VM, and the
\* other paths with a display token or none.
Upgrades ==
  [path : {<<"vnc", "V1">>, <<"spice", "V1">>}, token : Tokens]
  \cup {[path |-> <<"vnc", "V1">>, token |-> VmToken("V2")]}
  \cup [path : OtherPaths, token : {NoToken, VmToken("V1")}]

InitResolver ==
  /\ config = Config(2, 1, 2, 1)
  /\ Constructed

NextResolver ==
  \/ Login
  \/ \E sessionId \in 1 .. MaxSessions : Logout(sessionId)
  \/ \E sessionId \in 1 .. MaxSessions : Refresh(sessionId)
  \/ \E r \in Requests, proto \in {"vnc", "spice"}, sessionId \in 1 .. MaxSessions :
       ConnectStart(r, proto, sessionId, "V1")
  \/ \E r \in Requests, ok \in BOOLEAN : ConnectDone(r, ok)
  \/ \E u \in Upgrades : Connection(1, u.path, u.token)
  \/ \E outcome \in ResolveOutcomes : ResolveDone(1, outcome)

SpecResolver == InitResolver /\ [][NextResolver]_vars

\* The VNC passwords that resolutions for session sessionId and vm vmId have
\* returned: the answers of /api/vnc/connect and the infos the upgrades got.
Resolutions(sessionId, vmId) ==
  {rest[r].response.password :
     r \in {q \in Requests : /\ rest[q].pc = "answered"
                             /\ rest[q].proto = "vnc"
                             /\ rest[q].sessionId = sessionId
                             /\ rest[q].vmId = vmId}}
  \cup
  {call[w].info.password :
     w \in {v \in Sockets : /\ call[v].token = "user"
                            /\ call[v].proto = "vnc"
                            /\ call[v].sessionId = sessionId
                            /\ call[v].vmId = vmId
                            /\ call[v].info # NoInfo}}

\* C3: for a live session and a vm-id, all resolutions (connect answers and
\* upgrade lookups) have returned one and the same password.
C3_OnePasswordPerSession ==
  \A sessionId \in DOMAIN sessionStore, vmId \in VmIds :
    Cardinality(Resolutions(sessionId, vmId)) <= 1

\* An upgrade on slot w with a session bearer whose session caches vm vmId
\* is dispatched in this step.
CacheHitStep(w) ==
  /\ ws[w].readyState = "NONE"
  /\ ws'[w].readyState # "NONE"
  /\ call'[w].token = "user"
  /\ call'[w].proto = "vnc"
  /\ call'[w].sessionId \in DOMAIN sessionStore
  /\ call'[w].vmId \in DOMAIN sessionStore[call'[w].sessionId].vncConnections

\* C9: an upgrade with a session bearer whose session caches the vm-id is
\* resolved to exactly the cached host, port and password, in the same step
\* and without an upstream call.
C9_CacheHitVerbatim ==
  [][\A w \in Sockets :
       CacheHitStep(w) =>
         LET cachedInfo ==
               sessionStore[call'[w].sessionId].vncConnections[call'[w].vmId]
         IN /\ upstream' = upstream
            /\ call'[w].pc # "resolving"
            /\ call'[w].info = [host |-> cachedInfo.host, port |-> cachedInfo.port,
                                password |-> cachedInfo.password]]_vars

\* An upgrade resolved from the cache to the first password while the
\* upstream has already handed out a later one.
C9_Witness ==
  \E w \in Sockets :
    /\ call[w].token = "user"
    /\ call[w].proto = "vnc"
    /\ call[w].fetch = 0
    /\ call[w].pc = "dialing"
    /\ call[w].info.password = PlainVncPassword(1)
    /\ upstream >= 2

\* ----------------------------------------------- heartbeat specification
\* Spliced and unspliced WebSockets under the heartbeat timer.
InitHeartbeat ==
  /\ config = Config(2, 2, 2, 1)
  /\ Constructed

NextHeartbeat ==
  \/ HeartbeatTick
  \/ \E w \in Sockets :
       \/ ProxyConnection(w, "V1")
       \/ DialSucceeds(w)
       \/ WsPong(w)
       \/ WsClose(w)
       \/ TcpClose(w)

SpecHeartbeat == InitHeartbeat /\ [][NextHeartbeat]_vars

\* C10: at a sweep every WebSocket whose isAlive is false is terminated and
\* every other one has the flag cleared and (if OPEN) a ping sent; hence a
\* WebSocket already swept once since it was last marked alive is terminated
\* by the sweep.
C10_SweepTerminatesSilent ==
  [][heartbeat'.ticks = heartbeat.ticks + 1 =>
       \A w \in Clients :
         /\ ws[w].isAlive = "false" => ws'[w].terminated
         /\ ws[w].isAlive # "false" =>
              /\ ws'[w].isAlive = "false"
              /\ ws[w].readyState = "OPEN" => ws'[w].pinged
              /\ ws'[w].terminated = ws[w].terminated
         /\ wire[w].idle >= 1 => ws'[w].terminated]_vars

\* A spliced WebSocket swept twice since it was last marked alive, and
\* terminated by the second sweep.
C10_Witness ==
  \E w \in Sockets :
    /\ call[w].pc = "spliced"
    /\ ws[w].isAlive = "false"
    /\ wire[w].idle = 2
    /\ ws[w].terminated

\* C11: a sweep never terminates an OPEN WebSocket that has no unanswered
\* ping, whatever the stage of its handler (resolving, dialling or spliced).
C11_AnsweringClientSurvives ==
  [][heartbeat'.ticks = heartbeat.ticks + 1 =>
       \A w \in Clients :
         (ws[w].readyState = "OPEN" /\ ~ws[w].pinged /\ ~ws[w].terminated)
           => ~ws'[w].terminated]_vars

\* ---------------------------------------------------- dial specification
\* One admitted WebSocket whose dial may fail with either error on every
\* attempt, with maxRetries = 2 and retryDelay = 100.
InitDial ==
  /\ config = [Config(2, 1, 2, 2) EXCEPT !.retryDelay = 100]
  /\ Constructed

NextDial ==
  \/ ProxyConnection(1, "V1")
  \/ \E f \in Frames : WsMessage(1, f)
  \/ DialSucceeds(1)
  \/ \E error \in DialErrors : DialFails(1, error)
  \/ RetryTimer(1)
  \/ WsClose(1)

SpecDial == InitDial /\ [][NextDial]_vars

\* The failed attempts among the dials of slot w.
IsFailure(outcome) == outcome # "connect"
Failures(w) == SelectSeq(wire[w].dials, IsFailure)

\* C12: at most maxRetries + 1 attempts are made; a successful attempt is the
\* last one and its socket is the one spliced; after maxRetries + 1 failures
\* the error thrown is that of the last attempt, and nothing is thrown
\* before.
C12_BoundedAttempts ==
  \A w \in Sockets :
    LET dials == wire[w].dials
    IN /\ Len(dials) <= config.maxRetries + 1
       /\ call[w].attempt <= config.maxRetries + 1
       /\ \A i \in 1 .. Len(dials) : dials[i] = "connect" => i = Len(dials)
       /\ call[w].pc = "spliced" <=> (dials # <<>> /\ dials[Len(dials)] = "connect")
       /\ call[w].pc = "spliced" => Len(dials) = call[w].attempt
       /\ call[w].thrown # "" <=> Len(Failures(w)) = config.maxRetries + 1
       /\ call[w].thrown # "" => call[w].thrown = dials[Len(dials)]

\* Three failed attempts whose last error differs from the earlier ones.
C12_Witness ==
  \E w \in Sockets :
    /\ wire[w].dials = <<"ECONNREFUSED", "ECONNREFUSED", "Connection timeout">>
    /\ call[w].thrown = "Connection timeout"

\* retryDelay * retryBackoffMultiplier^(k-1), written out.
RECURSIVE Backoff(_, _, _)
Backoff(delay, multiplier, k) ==
  IF k = 1 THEN delay ELSE multiplier * Backoff(delay, multiplier, k - 1)

\* C13: the k-th backoff timer is set to retryDelay * multiplier^(k-1); a
\* timer is set after every failed attempt but the last possible one.
C13_BackoffDelays ==
  \A w \in Sockets :
    LET sleeps == wire[w].sleeps
        failed == Len(Failures(w))
    IN /\ \A k \in 1 .. Len(sleeps) :
            sleeps[k] = Backoff(config.retryDelay, config.retryBackoffMultiplier, k)
       /\ Len(sleeps) = IF failed = config.maxRetries + 1
                        THEN config.maxRetries ELSE failed
       /\ call[w].pc = "sleeping" => call[w].delay = sleeps[Len(sleeps)]

\* Both backoff timers were set, 100 then 200, and the third attempt failed
\* without a further timer.
C13_Witness ==
  \E w \in Sockets :
    /\ wire[w].sleeps = <<100, 200>>
    /\ Len(Failures(w)) = 3
    /\ call[w].pc = "returned"

\* C18: the step in which the last attempt fails removes the buffering
\* handler, sends the error frame and closes an OPEN WebSocket with 1011,
\* and leaves the registry alone; afterwards nothing has been written to any
\* target for the call and no record is ever registered for it.
C18_ExhaustionDiscards ==
  [][\A w \in Sockets :
       /\ (call[w].pc = "dialing" /\ call'[w].pc = "returned") =>
            /\ call'[w].thrown # ""
            /\ "temp" \notin ws'[w].listeners
            /\ connections' = connections
            /\ vmConnections' = vmConnections
            /\ ws[w].readyState = "OPEN" =>
                 /\ ws'[w].readyState = "CLOSING"
                 /\ ws'[w].closeCode = 1011
                 /\ ws'[w].sent =
                      Append(ws[w].sent, ErrorFrame("Failed to connect to server"))
       /\ call'[w].thrown # "" =>
            /\ target'[w].state = "none"
            /\ target'[w].written = <<>>
            /\ ws'[w].listeners = {}
            /\ call'[w].connectionId \notin DOMAIN connections']_vars

\* All attempts failed with two frames in the buffer; the WebSocket was
\* closed with 1011.
C18_Witness ==
  \E w \in Sockets :
    /\ call[w].thrown # ""
    /\ Len(call[w].messageBuffer) = 2
    /\ ws[w].closeCode = 1011
    /\ target[w].written = <<>>

\* A WebSocket is handed to handleConnection on slot w in this step.
HandledStep(w) == ws[w].readyState = "NONE" /\ ws'[w].readyState # "NONE"

\* The refusal of handleConnection on slot w with this message: error frame,
\* close 1008, no dial, registry unchanged.
RefusedWith(w, message) ==
  /\ ws'[w].sent = <<ErrorFrame(message)>>
  /\ ws'[w].readyState = "CLOSING"
  /\ ws'[w].closeCode = 1008
  /\ call'[w].pc = "returned"
  /\ target'[w] = NoTarget
  /\ connections' = connections
  /\ vmConnections' = vmConnections

\* C14: an upgrade for a VM that has maxConnectionsPerVM registered
\* connections, with the registry below maxConnections, is refused with
\* 'Too many connections for this VM'; with the registry at maxConnections
\* the refusal is the global one, whatever the VM's count.
C14_PerVmRefusal ==
  [][\A w \in Sockets :
       HandledStep(w) =>
         LET vmId == call'[w].vmId
             globalFull == Cardinality(DOMAIN connections) >= config.maxConnections
             vmFull == Cardinality(VmConns(vmConnections, vmId))
                         >= config.maxConnectionsPerVM
         IN /\ globalFull => RefusedWith(w, "Server is at maximum capacity")
            /\ (~globalFull /\ vmFull) =>
                 RefusedWith(w, "Too many connections for this VM")
            /\ (~globalFull /\ ~vmFull) => call'[w].pc = "dialing"]_vars

\* A second upgrade for a VM was refused with the per-VM message while the
\* first one is registered and the registry is below the global cap.
C14_Witness ==
  \E w \in Sockets :
    /\ ws[w].sent = <<ErrorFrame("Too many connections for this VM")>>
    /\ ws[w].closeCode = 1008
    /\ Cardinality(DOMAIN connections) = 1
    /\ config.maxConnections = 2
    /\ Cardinality(VmConns(vmConnections, call[w].vmId)) = 1

\* A path of the form /vnc/{id} or /spice/{id} with a non-empty id.
WellFormedPath(path) ==
  /\ Len(path) = 2
  /\ path[1] \in {"vnc", "spice"}
  /\ path[2] # ""

\* The WebSocket of slot w is closed with this code in this step, before
\* any upstream call, admission or dial.
ClosedAtOnce(w, code) ==
  /\ upstream' = upstream
  /\ connectionIdCounter' = connectionIdCounter
  /\ call'[w].pc = "returned"
  /\ call'[w].connectionId = <<>>
  /\ target'[w] = NoTarget
  /\ ws'[w].readyState = "CLOSING"
  /\ ws'[w].closeCode = code

\* C15: an upgrade whose path is not /vnc/{id} or /spice/{id} with a
\* non-empty id is closed with 1002 at once, whatever bearer it carries.
C15_BadPathClosed ==
  [][\A w \in Sockets :
       (HandledStep(w) /\ ~WellFormedPath(call'[w].path)) => ClosedAtOnce(w, 1002)]_vars

\* The bearer of the upgrade dispatched on slot w in this step is absent,
\* invalid or expired, or names a session that is not in the store.
BearerRejected(w) ==
  \/ call'[w].token \in {"none", "invalid"}
  \/ call'[w].token = "user" /\ call'[w].sessionId \notin DOMAIN sessionStore

\* C16: an upgrade to /vnc/{id} or /spice/{id} whose bearer is absent,
\* invalid, expired or without a stored session is closed with 1008 at once,
\* and its handler does nothing afterwards.
C16_BadBearerClosed ==
  [][\A w \in Sockets :
       /\ (HandledStep(w) /\ call'[w].proto \in {"vnc", "spice"}
             /\ call'[w].vmId # "" /\ BearerRejected(w))
            => ClosedAtOnce(w, 1008)
       /\ call[w].pc = "returned" => (call'[w] = call[w] /\ target'[w] = target[w])]_vars

\* An upgrade with the bearer of a session that has been logged out, closed
\* with 1008 without an upstream call.
C16_Witness ==
  \E w \in Sockets :
    /\ call[w].token = "user"
    /\ call[w].sessionId \in 1 .. issued
    /\ call[w].sessionId \notin DOMAIN sessionStore
    /\ call[w].fetch = 0
    /\ call[w].pc = "returned"
    /\ ws[w].closeCode = 1008

\* C17: after a failed resolution the WebSocket is closed with 1008 if the
\* upstream failure was authorization-shaped and with 1011 otherwise.
C17_FailureCloseCodes ==
  \A w \in Sockets :
    /\ call[w].failure = "unauthorized" => ws[w].closeCode = 1008
    /\ call[w].failure = "unavailable" => ws[w].closeCode = 1011

\* ------------------------------------------- the proxy engine, with progress
\* What the platform guarantees about closes: a WebSocket that is CLOSING
\* reaches CLOSED (the ws library destroys the connection when the closing
\* handshake times out, and at once on terminate), and a destroyed net.Socket
\* emits 'close'.  A target that was only half-closed with end() closes when
\* its peer closes, which nothing in the gateway enforces.
WsClosingCompletes(w) == ws[w].readyState = "CLOSING" /\ WsClose(w)
TcpDestroyedCloses(w) == target[w].state = "destroyed" /\ TcpClose(w)

SpecProgress ==
  /\ Init
  /\ [][Next]_vars
  /\ \A w \in Sockets : WF_vars(WsClosingCompletes(w))
  /\ \A w \in Sockets : WF_vars(TcpDestroyedCloses(w))

\* C19: after an error on either socket of a spliced session, eventually
\* the WebSocket and the TCP socket are both closed.
C19_ErrorEndsSession ==
  \A w \in Sockets :
    (wire[w].error # "") ~> (ws[w].readyState = "CLOSED" /\ target[w].state = "closed")

\* The 'close' event of the WebSocket of slot w is emitted in this step.
WsCloseStep(w) == ws[w].readyState # "CLOSED" /\ ws'[w].readyState = "CLOSED"

\* C20: when the WebSocket of a spliced session whose target is open closes,
\* the same step half-closes the target, writes nothing to it, and removes
\* the session's record and index entry; the registry shrinks by exactly one.
C20_WsCloseReleases ==
  [][\A w \in Sockets :
       (WsCloseStep(w) /\ call[w].pc = "spliced" /\ target[w].state = "open") =>
         /\ call[w].connectionId \in DOMAIN connections
         /\ call[w].connectionId \notin DOMAIN connections'
         /\ Cardinality(DOMAIN connections') = Cardinality(DOMAIN connections) - 1
         /\ call[w].connectionId \notin VmConns(vmConnections', call[w].vmId)
         /\ target'[w].state = "ended"
         /\ target'[w].written = target[w].written]_vars

\* A spliced WebSocket terminated by the heartbeat has closed: its target is
\* half-closed and its record is gone while another session is registered.
C20_Witness ==
  \E w \in Sockets :
    /\ call[w].pc = "spliced"
    /\ ws[w].terminated
    /\ ws[w].readyState = "CLOSED"
    /\ target[w].state = "ended"
    /\ call[w].connectionId \notin DOMAIN connections
    /\ Cardinality(DOMAIN connections) = 1

\* The target of slot w emits 'close' / 'error' in this step.
TcpCloseStep(w) == target[w].state # "closed" /\ target'[w].state = "closed"
TcpErrorStep(w) == target[w].state # "destroyed" /\ target'[w].state = "destroyed"

\* C21: the 'close' of a spliced session's target closes an OPEN WebSocket
\* with 1000 and leaves any other WebSocket as it is; its 'error' closes an
\* OPEN WebSocket with 1011, which the 'close' that follows does not change;
\* both release the record.
C21_TcpCloseCodes ==
  [][\A w \in Sockets :
       /\ TcpCloseStep(w) =>
            /\ call[w].connectionId \notin DOMAIN connections'
            /\ IF ws[w].readyState = "OPEN"
               THEN ws'[w].readyState = "CLOSING" /\ ws'[w].closeCode = 1000
               ELSE ws'[w] = ws[w]
            /\ wire[w].error = "tcp" => ws'[w].closeCode = ws[w].closeCode
       /\ TcpErrorStep(w) =>
            /\ call[w].connectionId \notin DOMAIN connections'
            /\ IF ws[w].readyState = "OPEN"
               THEN ws'[w].readyState = "CLOSING" /\ ws'[w].closeCode = 1011
               ELSE ws'[w] = ws[w]]_vars

\* A target errored and then closed; the WebSocket still carries 1011.
C21_Witness ==
  \E w \in Sockets :
    /\ wire[w].error = "tcp"
    /\ target[w].state = "closed"
    /\ ws[w].closeCode = 1011
    /\ call[w].connectionId \notin DOMAIN connections

\* The frames sent on the WebSocket of slot w include a JSON 'error' frame.
ErrorFrameSent(w) ==
  \E i \in DOMAIN ws[w].sent :
    /\ ~ws[w].sent[i].binary
    /\ ws[w].sent[i].data[1] = "error"

\* C22: a WebSocket that the gateway closed before the splice started, for a
\* missing or invalid bearer, a failed resolution, an admission refusal or
\* an exhausted dial (close codes 1008 and 1011), was sent a JSON 'error'
\* frame before the close.
C22_ErrorFrameBeforeClose ==
  \A w \in Sockets :
    (call[w].pc = "returned" /\ ws[w].closeCode \in {1008, 1011})
      => ErrorFrameSent(w)

\* A REST request arrives on slot r in this step.
RequestStep(r) == rest[r].pc = "idle" /\ rest'[r].pc # "idle"

\* C23: a REST request or a WebSocket upgrade whose bearer names a session
\* that is not in the store (never stored, logged out or refreshed away) is
\* rejected, with HTTP 401 and with close code 1008, without an upstream call
\* and without a change of the store.
C23_StaleSessionRejected ==
  [][/\ \A r \in Requests :
          (RequestStep(r) /\ rest'[r].sessionId \notin DOMAIN sessionStore)
            => /\ rest'[r].pc = "rejected"
               /\ rest'[r].status = 401
               /\ upstream' = upstream
               /\ sessionStore' = sessionStore
     /\ \A w \in Sockets :
          (HandledStep(w) /\ WellFormedPath(call'[w].path)
             /\ call'[w].token = "user"
             /\ call'[w].sessionId \notin DOMAIN sessionStore)
            => /\ ClosedAtOnce(w, 1008)
               /\ sessionStore' = sessionStore]_vars

\* A connect request answered 401 and an upgrade closed with 1008, both with
\* the bearer of a session that a refresh replaced.
C23_Witness ==
  \E r \in Requests, w \in Sockets :
    /\ rest[r].status = 401
    /\ rest[r].sessionId \in 1 .. issued
    /\ rest[r].sessionId \notin DOMAIN sessionStore
    /\ DOMAIN sessionStore # {}
    /\ call[w].token = "user"
    /\ call[w].sessionId = rest[r].sessionId
    /\ ws[w].closeCode = 1008

\* A refresh of session old happens in this step: a new id is issued and
\* old leaves the store.
RefreshStep(old) ==
  /\ issued' = issued + 1
  /\ old \in DOMAIN sessionStore
  /\ old \notin DOMAIN sessionStore'

\* C24: one step of refresh removes the old session-id and inserts the new
\* one with the old session's payload (upstream token and per-VM caches),
\* and leaves every other session alone, so that no state between the two
\* holds both ids or neither.
C24_RefreshAtomic ==
  [][\A old \in 1 .. MaxSessions :
       RefreshStep(old) =>
         /\ DOMAIN sessionStore' = (DOMAIN sessionStore \ {old}) \cup {issued'}
         /\ issued' \notin DOMAIN sessionStore
         /\ sessionStore'[issued'] = sessionStore[old]
         /\ \A other \in DOMAIN sessionStore \ {old} :
              sessionStore'[other] = sessionStore[other]]_vars

\* A session whose cache a connect request filled was refreshed: the request
\* names an id that left the store, and the latest id holds the cache.
C24_Witness ==
  \E r \in Requests :
    /\ rest[r].pc = "answered"
    /\ rest[r].sessionId \notin DOMAIN sessionStore
    /\ issued \in DOMAIN sessionStore
    /\ issued > rest[r].sessionId
    /\ Cache(sessionStore[issued], rest[r].proto) # EmptyMap

\* ------------------------------------------------------ graceful shutdown
\* gracefulShutdown runs as one callback and its microtasks: no other
\* callback runs between its statements.  Its statements are separate steps
\* here so that their order shows; every other action waits for the handler
\* to finish.
InHandler == server.shutdown \notin {"none", "done"}
Alive == server.exit = "none" /\ ~InHandler

\* The slots of the records in this.connections.
RegisteredSlots == {connections[c].slot : c \in DOMAIN connections}

\* A shutdown that closes the WebSockets as closeVMConnections does.
ShutdownCloseNormal(s) == WsCloseCall(s, 1000)

\* shutdown: if (conn.ws.readyState === OPEN) conn.ws.close(1001, ...)
ShutdownClose(s) == WsCloseCall(s, 1001)

\* SIGTERM / SIGINT: gracefulShutdown starts; shutdown() calls stopHeartbeat.
Signal ==
  /\ Alive
  /\ server.signals < MaxSignals
  /\ server' = [server EXCEPT !.shutdown = "heartbeatStopped", !.signals = @ + 1]
  /\ heartbeat' = [heartbeat EXCEPT !.running = FALSE]
  /\ UNCHANGED <<config, client, ws, target, call, connections, vmConnections,
                 connectionIdCounter, webVars, wire>>

\* shutdown: the loop over this.connections.entries()
ShutdownConnections ==
  /\ server.shutdown = "heartbeatStopped"
  /\ server' = [server EXCEPT !.shutdown = "connectionsClosed"]
  /\ ws' = [w \in Sockets |->
              IF w \in RegisteredSlots THEN ShutdownClose(ws[w]) ELSE ws[w]]
  /\ target' = [w \in Sockets |->
                  IF w \in RegisteredSlots THEN TargetEnd(target[w]) ELSE target[w]]
  /\ UNCHANGED <<config, client, call, connections, vmConnections, connectionIdCounter,
                 heartbeat, webVars, wire>>

\* shutdown: this.connections.clear(); this.vmConnections.clear()
ShutdownClear ==
  /\ server.shutdown = "connectionsClosed"
  /\ server' = [server EXCEPT !.shutdown = "registryCleared"]
  /\ connections' = EmptyMap
  /\ vmConnections' = EmptyMap
  /\ UNCHANGED <<config, client, ws, target, call, connectionIdCounter, heartbeat,
                 webVars, wire>>

\* gracefulShutdown after the await: sessionStore.clear()
SessionsClear ==
  /\ server.shutdown = "registryCleared"
  /\ server' = [server EXCEPT !.shutdown = "sessionsCleared"]
  /\ sessionStore' = EmptyMap
  /\ UNCHANGED <<config, client, ws, target, call, connections, vmConnections,
                 connectionIdCounter, heartbeat, upstream, rest, issued, wire>>

\* A close of the servers that arms no deadline.
ServersCloseNoDeadline ==
  /\ server.shutdown = "sessionsCleared"
  /\ server' = [server EXCEPT !.shutdown = "done", !.listening = FALSE]
  /\ UNCHANGED <<config, client, ws, target, call, connections, vmConnections,
                 connectionIdCounter, heartbeat, webVars, wire>>

\* gracefulShutdown: wss.close(), server.close(cb), setTimeout(exit(1), 10000)
ServersClose ==
  /\ server.shutdown = "sessionsCleared"
  /\ server' = [server EXCEPT !.shutdown = "done", !.listening = FALSE,
                              !.deadline = TRUE]
  /\ UNCHANGED <<config, client, ws, target, call, connections, vmConnections,
                 connectionIdCounter, heartbeat, webVars, wire>>

\* No connection of the HTTP server is left: every WebSocket has closed and
\* every REST request is answered.
Drained ==
  /\ \A w \in Sockets : ws[w].readyState \in {"NONE", "CLOSED"}
  /\ \A r \in Requests : rest[r].pc # "fetching"

\* The callback of server.close: process.exit(0)
ServerClosed ==
  /\ Alive
  /\ ~server.listening
  /\ Drained
  /\ server' = [server EXCEPT !.exit = "0"]
  /\ UNCHANGED <<config, client, ws, target, call, connections, vmConnections,
                 connectionIdCounter, heartbeat, webVars, wire>>

\* The deadline timer fires: process.exit(1)
DeadlineFires ==
  /\ Alive
  /\ server.deadline
  /\ server' = [server EXCEPT !.exit = "1"]
  /\ UNCHANGED <<config, client, ws, target, call, connections, vmConnections,
                 connectionIdCounter, heartbeat, webVars, wire>>

InitShutdown ==
  /\ config = Config(2, 2, 2, 1)
  /\ Constructed

NextShutdown ==
  \/ Signal
  \/ ShutdownConnections
  \/ ShutdownClear
  \/ SessionsClear
  \/ ServersClose
  \/ ServerClosed
  \/ DeadlineFires
  \/ Alive /\ Login
  \/ \E w \in Sockets :
       \/ Alive /\ server.listening /\ ProxyConnection(w, "V1")
       \/ Alive /\ DialSucceeds(w)
       \/ Alive /\ WsClose(w)
       \/ Alive /\ TcpClose(w)

SpecShutdown == InitShutdown /\ [][NextShutdown]_vars

\* A step of gracefulShutdown that reaches this position.
Reaches(position) == server.shutdown # position /\ server'.shutdown = position

\* C25: on a termination signal the heartbeat is stopped first; then every
\* registered connection's WebSocket is closed with 1001 if it is OPEN and
\* its TCP socket is half-closed; then the registry is emptied; then the
\* session store is cleared; only then the listening servers are closed.
\* None of these steps changes what an earlier or a later one acts on.
C25_ShutdownOrder ==
  [][/\ Reaches("heartbeatStopped") =>
          /\ ~heartbeat'.running
          /\ ws' = ws /\ target' = target /\ connections' = connections
          /\ sessionStore' = sessionStore /\ server'.listening = server.listening
     /\ Reaches("connectionsClosed") =>
          /\ ~heartbeat.running
          /\ \A w \in Sockets :
               IF w \in RegisteredSlots
               THEN /\ ws[w].readyState = "OPEN" =>
                         (ws'[w].readyState = "CLOSING" /\ ws'[w].closeCode = 1001)
                    /\ ws[w].readyState # "OPEN" => ws'[w] = ws[w]
                    /\ target'[w].state # "open"
               ELSE ws'[w] = ws[w] /\ target'[w] = target[w]
          /\ connections' = connections
          /\ sessionStore' = sessionStore /\ server'.listening = server.listening
     /\ Reaches("registryCleared") =>
          /\ server.shutdown = "connectionsClosed"
          /\ connections' = EmptyMap /\ vmConnections' = EmptyMap
          /\ sessionStore' = sessionStore /\ server'.listening = server.listening
     /\ Reaches("sessionsCleared") =>
          /\ server.shutdown = "registryCleared"
          /\ connections = EmptyMap
          /\ sessionStore' = EmptyMap /\ server'.listening = server.listening
     /\ (server.listening /\ ~server'.listening) =>
          /\ ~heartbeat.running
          /\ connections = EmptyMap /\ vmConnections = EmptyMap
          /\ sessionStore = EmptyMap]_vars

\* The servers have stopped listening after a shutdown that found a
\* registered connection with an OPEN WebSocket (closed with 1001, target
\* half-closed) and a session in the store.
C25_Witness ==
  /\ ~server.listening
  /\ issued > 0
  /\ sessionStore = EmptyMap
  /\ connections = EmptyMap
  /\ \E w \in Sockets :
       /\ ws[w].closeCode = 1001
       /\ target[w].state = "ended"

\* The event loop runs gracefulShutdown to its end, and the deadline timer,
\* which is not unref'd, fires unless the process has exited.
SpecShutdownLive ==
  /\ SpecShutdown
  /\ WF_vars(ShutdownConnections)
  /\ WF_vars(ShutdownClear)
  /\ WF_vars(SessionsClear)
  /\ WF_vars(ServersClose)
  /\ WF_vars(DeadlineFires)

\* C26: after a termination signal the process eventually exits, when the
\* HTTP server has finished closing or when the deadline timer fires.
C26_EventuallyExits == (server.signals > 0) ~> (server.exit # "none")

\* The deadline ended the process while a WebSocket was still connected.
C26_Witness ==
  /\ server.exit = "1"
  /\ \E w \in Sockets : ws[w].readyState \in {"OPEN", "CLOSING"}

\* A 'close' of either socket of slot w whose handler calls cleanupConnection
\* for a connection that is no longer registered.
SecondCleanupStep(w) ==
  /\ call[w].pc = "spliced"
  /\ ~Registered(w)
  /\ \/ WsCloseStep(w)
     \/ TcpCloseStep(w)

\* C27: cleanupConnection applied again to the registry it produced returns
\* that registry, and its first application leaves the records and the
\* index entries of every other connection, those of the same VM included,
\* as they were; a handler that calls it for a connection already cleaned
\* up changes nothing in the registry.
C27_CleanupIdempotent ==
  [][\A w \in Sockets :
       LET id == call[w].connectionId
           vmId == call[w].vmId
           once == CleanupConnections(connections, id)
           vmOnce == CleanupVmConnections(vmConnections, id, vmId)
       IN /\ SecondCleanupStep(w) =>
               (connections' = connections /\ vmConnections' = vmConnections)
          /\ CleanupConnections(once, id) = once
          /\ CleanupVmConnections(vmOnce, id, vmId) = vmOnce
          /\ \A c \in DOMAIN connections \ {id} :
               c \in DOMAIN once /\ once[c] = connections[c]
          /\ \A v \in DOMAIN vmConnections :
               VmConns(vmOnce, v) = vmConnections[v] \ {id}]_vars

\* Both sockets of a session have closed, so cleanupConnection ran twice for
\* it, while another connection of the same VM stays registered.
C27_Witness ==
  \E w, v \in Sockets :
    /\ w # v
    /\ call[w].pc = "spliced"
    /\ ws[w].readyState = "CLOSED"
    /\ target[w].state = "closed"
    /\ ~Registered(w)
    /\ Registered(v)
    /\ call[v].vmId = call[w].vmId
    /\ call[v].connectionId \in VmConns(vmConnections, call[v].vmId)

\* The frames of this sequence that are pongs.
Pongs(sent) ==
  {i \in DOMAIN sent : ~sent[i].binary /\ sent[i].data[1] = "pong"}

\* The JSON control frames that the client of slot w has sent.
ControlFrames(w) ==
  {i \in DOMAIN wire[w].frames : wire[w].frames[i].f.json # "none"}

\* C28: the bytes of a text frame that parses as a JSON control message are
\* never written to the TCP socket, whether the frame arrived before or
\* after the TCP connection was ready, and the only text frames sent to the
\* client for them are pongs, at most one for each ping.
C28_ControlFramesStayOffTcp ==
  \A w \in Sockets :
    /\ \A i \in ControlFrames(w), j \in DOMAIN target[w].written :
         target[w].written[j] # wire[w].frames[i].f.data
    /\ Cardinality(Pongs(ws[w].sent)) <= Cardinality(ControlFrames(w))

\* The resolver of slot w returns in this step what it fetched from the
\* upstream for a session bearer whose session is in the store.
MissResolvedStep(w) ==
  /\ call[w].pc = "resolving"
  /\ call'[w].pc # "resolving"
  /\ call'[w].token = "user"
  /\ call'[w].failure = ""
  /\ call'[w].sessionId \in DOMAIN sessionStore'

\* C29: when the resolver of an upgrade with a session bearer returns what
\* it fetched after a cache miss, the session's cache for the vm-id holds
\* the fetched host, port and password.
C29_MissFillsCache ==
  [][\A w \in Sockets :
       MissResolvedStep(w) =>
         LET cache == Cache(sessionStore'[call'[w].sessionId], call'[w].proto)
         IN /\ call'[w].vmId \in DOMAIN cache
            /\ cache[call'[w].vmId].password = call'[w].info.password
            /\ cache[call'[w].vmId].host = call'[w].info.host
            /\ cache[call'[w].vmId].port = call'[w].info.port]_vars

\* The connect request of slot r is answered with connection info in this
\* step.
AnsweredStep(r) == rest[r].pc = "fetching" /\ rest'[r].pc = "answered"

C31_IndexMatchesRegistry ==
  /\ \A v \in DOMAIN vmConnections : vmConnections[v] # {}
  /\ \A v \in VmIds :
       VmConns(vmConnections, v)
         = {c \in DOMAIN connections : connections[c].vmId = v}

\* One of two registered connections of a VM has been cleaned up; the index
\* of the VM holds the other one.
C31_Witness ==
  \E w, v \in Sockets :
    /\ call[w].pc = "spliced" /\ ~Registered(w)
    /\ call[v].vmId = call[w].vmId
    /\ Registered(v)
    /\ vmConnections[call[v].vmId] = {call[v].connectionId}

\* ------------------------------------------------- lifecycle specification
\* Upgrades with every kind of bearer, through resolution, admission under a
\* cap of one connection, dial with one retry, registration and close.
InitLifecycle ==
  /\ config = Config(1, 1, 2, 1)
  /\ Constructed

NextLifecycle ==
  \/ Login
  \/ \E w \in Sockets :
       \/ \E path \in {<<"vnc", "V1">>, <<"other", "V1">>},
             token \in {UserToken(1), VmToken("V1"), NoToken, InvalidToken} :
            Connection(w, path, token)
       \/ \E outcome \in {"ok", "unavailable"} : ResolveDone(w, outcome)
       \/ DialSucceeds(w)
       \/ DialFails(w, "ECONNREFUSED")
       \/ RetryTimer(w)
       \/ WsClose(w)

SpecLifecycle == InitLifecycle /\ [][NextLifecycle]_vars

\* A dial attempt for slot w starts in this step.
DialStarts(w) == target[w].state = "none" /\ target'[w].state = "connecting"

\* C32: a TCP dial starts only for a connection whose bearer was verified,
\* whose target is resolved and, at its first attempt, whose admission
\* checks pass in the same step; a record is registered only in the step in
\* which the connection's dial succeeds.
C32_LifecycleOrder ==
  [][\A w \in Sockets :
       /\ DialStarts(w) =>
            /\ call'[w].token \in {"user", "vm"}
            /\ call'[w].token = "user" => call'[w].sessionId \in 1 .. issued
            /\ call'[w].proto \in {"vnc", "spice"}
            /\ call'[w].failure = ""
            /\ call'[w].info # NoInfo
            /\ call'[w].pc = "dialing"
            /\ call'[w].attempt = 1 =>
                 Admission(connections, vmConnections, call'[w].vmId) = ""
            /\ call'[w].attempt > 1 => call[w].pc = "sleeping"
       /\ (~Registered(w) /\ call'[w].connectionId \in DOMAIN connections') =>
            /\ call[w].pc = "dialing"
            /\ target[w].state = "connecting"
            /\ target'[w].state = "open"
            /\ call'[w].pc = "spliced"]_vars

\* A connection registered after a failed attempt and a retry, while upgrades
\* without a bearer and beyond the cap have been closed without a dial.
C32_Witness ==
  \E w, v \in Sockets :
    /\ Registered(w)
    /\ wire[w].dials = <<"ECONNREFUSED", "connect">>
    /\ call[v].pc = "returned"
    /\ ws[v].closeCode = 1008
    /\ wire[v].dials = <<>>

\* The slots whose upgrade reached handleConnection.
Called == {w \in Sockets : call[w].connectionId # <<>>}

\* C33: the counter equals the number of handleConnection calls made so far,
\* admitted or refused, and any two calls hold different connection-ids,
\* also for the same vm-id.
C33_UniqueConnectionIds ==
  /\ connectionIdCounter = Cardinality(Called)
  /\ \A w, v \in Called : w # v => call[w].connectionId # call[v].connectionId

\* Two calls for the same vm-id, the second one refused, hold two ids.
C33_Witness ==
  \E w, v \in Called :
    /\ w # v
    /\ call[w].vmId = call[v].vmId
    /\ call[v].pc = "returned"
    /\ ws[v].closeCode = 1008
    /\ connectionIdCounter = 2

\* ------------------------------------------------- isolation specification
\* 'error' on a WebSocket that has no 'error' listener yet (setupProxy has
\* not run: the resolver or the dial is pending).  The library has started
\* closing the socket; emit('error') throws, the exception is uncaught, and
\* process.on('uncaughtException') calls gracefulShutdown.
WsErrorUnhandled(w) ==
  /\ Alive
  /\ server.signals < MaxSignals
  /\ ws[w].readyState = "OPEN"
  /\ "error" \notin ws[w].listeners
  /\ ws' = [ws EXCEPT ![w] = WsTerminate(@)]
  /\ wire' = [wire EXCEPT ![w].error = "ws"]
  /\ server' = [server EXCEPT !.shutdown = "heartbeatStopped", !.signals = @ + 1]
  /\ heartbeat' = [heartbeat EXCEPT !.running = FALSE]
  /\ UNCHANGED <<config, client, target, call, connections, vmConnections,
                 connectionIdCounter, webVars>>

InitIsolation ==
  /\ config = Config(2, 2, 2, 1)
  /\ Constructed

NextIsolation ==
  \/ ShutdownConnections
  \/ ShutdownClear
  \/ SessionsClear
  \/ ServersClose
  \/ ServerClosed
  \/ DeadlineFires
  \/ \E w \in Sockets :
       \/ Alive /\ server.listening /\ ProxyConnection(w, "V1")
       \/ Alive /\ DialSucceeds(w)
       \/ Alive /\ DialFails(w, "ECONNREFUSED")
       \/ Alive /\ RetryTimer(w)
       \/ Alive /\ WsClose(w)
       \/ Alive /\ WsError(w)
       \/ WsErrorUnhandled(w)
       \/ Alive /\ TcpClose(w)
       \/ Alive /\ TcpError(w)

SpecIsolation == InitIsolation /\ [][NextIsolation]_vars

\* C34: a step in which a socket of connection w closes or errors leaves
\* the process, the heartbeat and every other connection as they were: the
\* other connection's sockets, its handler, its record and its index entry.
C34_OthersUnaffected ==
  [][\A w \in Sockets :
       (\/ WsCloseStep(w)
        \/ TcpCloseStep(w)
        \/ TcpErrorStep(w)
        \/ wire'[w].error # wire[w].error)
         => /\ server' = server
            /\ heartbeat' = heartbeat
            /\ \A v \in Sockets \ {w} :
                 /\ ws'[v] = ws[v]
                 /\ target'[v] = target[v]
                 /\ call'[v] = call[v]
                 /\ Registered(v) =>
                      /\ call[v].connectionId \in DOMAIN connections'
                      /\ connections'[call[v].connectionId]
                           = connections[call[v].connectionId]
                      /\ call[v].connectionId
                           \in VmConns(vmConnections', call[v].vmId)]_vars

\* C35: when the resolver of a /spice/{id} upgrade returns what it fetched
\* from the upstream, the host, port and password are those of the SPICE
\* endpoint's answer: the password is the endpoint's key, not the VNC
\* password.
C35_SpiceMissUsesSpiceEndpoint ==
  [][\A w \in Sockets :
       (/\ call[w].pc = "resolving"
        /\ call'[w].pc # "resolving"
        /\ call'[w].failure = ""
        /\ call'[w].proto = "spice")
         => LET spiceInfo == getSPICEConnectionInfo(call'[w].vmId, call'[w].fetch)
            IN /\ call'[w].info.host = spiceInfo.hostIp
               /\ call'[w].info.port = spiceInfo.spicePort
               /\ call'[w].info.password = spiceInfo.spicePassword]_vars

\* C36: once the dial of a connection has completed, a WebSocket that has
\* closed (during the dial or after it) has no registered record, and its
\* dialled TCP socket is not left open.
C36_ClosedDuringDialReleased ==
  \A w \in Sockets :
    (call[w].pc = "spliced" /\ ws[w].readyState = "CLOSED")
      => (~Registered(w) /\ target[w].state # "open")

\* C37: once shutdown() has cleared the registry, the registry stays empty
\* and no dialled TCP socket is open.
C37_RegistryStaysEmpty ==
  server.shutdown \in {"registryCleared", "sessionsCleared", "done"}
    => /\ connections = EmptyMap
       /\ vmConnections = EmptyMap
       /\ \A w \in Sockets : target[w].state # "open"

\* C38: a WebSocket never has the temporary and the permanent 'message'
\* handler together, the temporary one is gone once handleConnection has
\* returned, and the TCP socket has received at most one write for each
\* frame the client sent.
C38_OneMessageHandler ==
  \A w \in Sockets :
    /\ ~({"temp", "message"} \subseteq ws[w].listeners)
    /\ call[w].pc \in {"spliced", "returned"} => "temp" \notin ws[w].listeners
    /\ Len(target[w].written) <= Len(wire[w].frames)

\* One frame was buffered during the dial and flushed, another was forwarded
\* by the permanent handler: two writes for two frames.
C38_Witness ==
  \E w \in Sockets :
    /\ Len(wire[w].frames) = 2
    /\ wire[w].frames[1].pc = "dialing"
    /\ wire[w].frames[2].pc = "spliced"
    /\ Len(target[w].written) = 2
    /\ ws[w].listeners = {"message", "pong", "close", "error"}

\* C39: an upgrade to /vnc/W or /spice/W that presents a display bearer
\* issued for another vm-id is closed with 1008 at once, without an upstream
\* call and without a dial.
C39_DisplayBearerBoundToVm ==
  [][\A w \in Sockets :
       (/\ HandledStep(w)
        /\ call'[w].token = "vm"
        /\ call'[w].proto \in {"vnc", "spice"}
        /\ call'[w].vmId # ""
        /\ call'[w].tokenVmId # call'[w].vmId)
         => ClosedAtOnce(w, 1008)]_vars

\* ------------------------------------------------------ the browser client
\* The login page stores the bearer of the login response (Utils.setToken).
ClientLogin ==
  /\ client.token = 0
  /\ issued < MaxSessions
  /\ issued' = issued + 1
  /\ sessionStore' = MapSet(sessionStore, issued + 1, NewSession)
  /\ client' = [client EXCEPT !.token = issued + 1]
  /\ UNCHANGED <<config, ws, target, call, connections, vmConnections,
                 connectionIdCounter, heartbeat, server, upstream, rest, wire>>

\* The interval timer of the page: API.auth.refresh() with the stored
\* bearer; the response, which carries the new bearer, is dropped.
ClientRefresh ==
  /\ client.token # 0
  /\ Refresh(client.token)

\* API.request with the stored bearer: a connect request.
ClientConnect(r) ==
  /\ client.token # 0
  /\ ConnectStart(r, "vnc", client.token, "V1")

\* API.request sees 401: Utils.clearToken() and the page goes to the login.
ClientUnauthorized(r) ==
  /\ rest[r].status = 401
  /\ rest[r].sessionId = client.token
  /\ client' = [client EXCEPT !.token = 0]
  /\ UNCHANGED <<config, ws, target, call, connections, vmConnections,
                 connectionIdCounter, heartbeat, server, webVars, wire>>

\* The viewer page opens the WebSocket with the stored bearer.
ClientUpgrade(w) ==
  /\ client.token # 0
  /\ \E proto \in {"vnc", "spice"} :
       Connection(w, <<proto, "V1">>, UserToken(client.token))

InitClient ==
  /\ config = Config(2, 1, 2, 1)
  /\ Constructed

NextClient ==
  \/ ClientLogin
  \/ ClientRefresh
  \/ \E r \in Requests :
       \/ ClientConnect(r)
       \/ ClientUnauthorized(r)
       \/ \E ok \in BOOLEAN : ConnectDone(r, ok)
  \/ \E w \in Sockets :
       \/ ClientUpgrade(w)
       \/ \E outcome \in ResolveOutcomes : ResolveDone(w, outcome)

SpecClient == InitClient /\ [][NextClient]_vars

\* C40: after a refresh made with the bearer that the browser client has
\* stored, the bearer the client has stored names a session in the store.
C40_ClientBearerStaysLive ==
  [][\A old \in 1 .. MaxSessions :
       (RefreshStep(old) /\ client.token = old)
         => client'.token \in DOMAIN sessionStore']_vars

====
